---- MODULE Spec2Model ----
(***************************************************************************)
(* Real_world_examples/Change_filmstrips.ipynb as a state machine.         *)
(*                                                                         *)
(* The state is the Jupyter session: the text of the parameter cell, the   *)
(* names bound in the kernel namespace, the kernel's execution counter,    *)
(* which cell is executing and where it stands, the files on disk, and     *)
(* what the running helper / export loop has done so far.  The kernel runs *)
(* one cell at a time; the user picks which cell to run and may edit the   *)
(* parameter cell between runs.                                            *)
(*                                                                         *)
(* run_filmstrip_app (Scripts/notebookapp_changefilmstrips.py) is not part *)
(* of the notebook file; its steps are modelled from the specification and *)
(* from the notebook's own description of it.                              *)
(*                                                                         *)
(* Encodings: a date 'YYYY-MM-DD' is the record [y, m, d]; a tide fraction *)
(* is kept in tenths (0.3 is 3); time_step = {'years': n} is the record    *)
(* [years |-> n]; a raster is identified by the area and period it was     *)
(* composited from.                                                        *)
(***************************************************************************)
EXTENDS Integers, Sequences, FiniteSets, TLC

VARIABLES
    param_cell,       \* the literals in the source text of the parameter cell
    output_name, time_range, time_step,
    tide_range, resolution, max_cloud, ls7_slc_off,
    output_data,      \* the collection assigned by the acquisition cell
    i, ds,            \* the export loop's variables (globals of the kernel)
    bound,            \* the names currently bound in the kernel namespace
    assigned,         \* what the last run of the parameter cell assigned
    execution_count,  \* the kernel's execution counter
    running,          \* the cell being executed: "idle", "acquisition", "export"
    cell_status,      \* outcome of the last run of each cell
    helper_stage,     \* where run_filmstrip_app stands
    helper_args,      \* the positional arguments run_filmstrip_app received
    helper_calls,     \* number of calls of run_filmstrip_app so far
    selection,        \* the shape drawn on the map (its area in hectares), 0 if none
    loaded,           \* the observations the helper has loaded
    helper_result,    \* the composites the helper has computed
    helper_log,       \* what the current / last call of the helper has done
    groups,           \* the groups the export loop iterates
    idx,              \* number of groups the loop has taken from the iterator
    export_pc,        \* position inside the loop body
    printed,          \* messages printed by the current / last export run
    writer_calls,     \* write_geotiff calls of the current / last export run
    files             \* the files on disk: name -> content

params == <<output_name, time_range, time_step,
            tide_range, resolution, max_cloud, ls7_slc_off>>
namespace == <<params, output_data, i, ds, bound>>
helper == <<helper_stage, helper_args, helper_calls, selection, loaded,
            helper_result, helper_log>>
export == <<groups, idx, export_pc, printed, writer_calls>>
vars == <<param_cell, namespace, assigned, execution_count, running,
          cell_status, helper, export, files>>

(* ------------------------------ bounds -------------------------------- *)

\* cells the user runs in one session
MaxExecutions == 5

(* ----------------------------- constants ------------------------------ *)

\* "select an area smaller than 20,000 hectares"
SizeLimit == 20000

ParamNames == {"output_name", "time_range", "time_step", "tide_range",
               "resolution", "max_cloud", "ls7_slc_off"}

Date(y, m, d) == [y |-> y, m |-> m, d |-> d]

\* Variant: the cell ships with a cloud ceiling other than the documented one.
ParameterCellMaxCloud80 ==
    [output_name |-> "example",
     time_range  |-> <<Date(1988, 1, 1), Date(2017, 12, 31)>>,
     time_step   |-> [years |-> 5],
     tide_range  |-> <<0, 10>>,
     resolution  |-> <<-30, 30>>,
     max_cloud   |-> 80,
     ls7_slc_off |-> FALSE]

\* The parameter cell as shipped.
ParameterCellSource ==
    [output_name |-> "example",
     time_range  |-> <<Date(1988, 1, 1), Date(2017, 12, 31)>>,
     time_step   |-> [years |-> 5],
     tide_range  |-> <<0, 10>>,
     resolution  |-> <<-30, 30>>,
     max_cloud   |-> 50,
     ls7_slc_off |-> FALSE]

\* The defaults of the optional parameters as the notebook documents them.
DocumentedDefaults ==
    [tide_range  |-> <<0, 10>>,
     resolution  |-> <<-30, 30>>,
     max_cloud   |-> 50,
     ls7_slc_off |-> FALSE]

\* Texts the user may give the parameter cell: the shipped one, the edits the
\* "Next steps" section suggests, a short window under the same output name,
\* and a window whose end lies before its start.
ParameterCellTexts ==
    { ParameterCellSource,
      [output_name |-> "site",
       time_range  |-> <<Date(1990, 1, 1), Date(2000, 1, 1)>>,
       time_step   |-> [years |-> 4],
       tide_range  |-> <<0, 3>>,
       resolution  |-> <<-100, 100>>,
       max_cloud   |-> 80,
       ls7_slc_off |-> TRUE],
      [ParameterCellSource EXCEPT
           !.time_range = <<Date(2013, 1, 1), Date(2017, 12, 31)>>],
      [ParameterCellSource EXCEPT
           !.output_name = "site",
           !.time_range = <<Date(2017, 12, 31), Date(1988, 1, 1)>>] }

\* Shapes the user may draw, by area in hectares.
Areas == {12000, 18000, 25000}

(* ------------------------------- Init --------------------------------- *)

\* A fresh kernel: nothing is bound, no cell has run.  The values of unbound
\* names are never read (every read is guarded by bound).
Init ==
    /\ param_cell = ParameterCellSource
    /\ output_name = "" /\ time_range = <<>> /\ time_step = [years |-> 0]
    /\ tide_range = <<>> /\ resolution = <<>> /\ max_cloud = 0
    /\ ls7_slc_off = FALSE
    /\ output_data = <<>> /\ i = 0 /\ ds = <<>>
    /\ bound = {}
    /\ assigned = ParameterCellSource
    /\ execution_count = 0
    /\ running = "idle"
    /\ cell_status = [parameters |-> "never", acquisition |-> "never",
                      export |-> "never"]
    /\ helper_stage = "none" /\ helper_args = <<>> /\ helper_calls = 0
    /\ selection = 0 /\ loaded = <<>> /\ helper_result = <<>>
    /\ helper_log = <<>>
    /\ groups = <<>> /\ idx = 0 /\ export_pc = "none"
    /\ printed = <<>> /\ writer_calls = <<>>
    /\ files = <<>>

(* -------------------------- parameter staging -------------------------- *)

\* The user edits the text of the parameter cell.
EditParameterCell ==
    /\ running = "idle"
    /\ \E text \in ParameterCellTexts :
          /\ text # param_cell
          /\ param_cell' = text
    /\ UNCHANGED <<namespace, assigned, execution_count, running,
                   cell_status, helper, export, files>>

\* Cell 7: seven assignments of literals.
RunParameterCell ==
    /\ running = "idle"
    /\ execution_count < MaxExecutions
    /\ execution_count' = execution_count + 1
    /\ output_name' = param_cell.output_name
    /\ time_range' = param_cell.time_range
    /\ time_step' = param_cell.time_step
    /\ tide_range' = param_cell.tide_range
    /\ resolution' = param_cell.resolution
    /\ max_cloud' = param_cell.max_cloud
    /\ ls7_slc_off' = param_cell.ls7_slc_off
    /\ bound' = bound \cup ParamNames
    /\ assigned' = param_cell
    /\ cell_status' = [cell_status EXCEPT !.parameters = "ok"]
    /\ UNCHANGED <<param_cell, output_data, i, ds, running, helper, export,
                   files>>

(* ------------------- acquisition + compositing call ------------------- *)

\* Variant: two of the positional arguments change places.
HelperArgsSwapped ==
    <<output_name, time_range, time_step,
      resolution, tide_range, max_cloud, ls7_slc_off>>

\* The positional arguments of the call in cell 9.
HelperArgs ==
    <<output_name, time_range, time_step,
      tide_range, resolution, max_cloud, ls7_slc_off>>

\* d1 is not after d2.
DateLE(d1, d2) ==
    \/ d1.y < d2.y
    \/ d1.y = d2.y /\ d1.m < d2.m
    \/ d1.y = d2.y /\ d1.m = d2.m /\ d1.d <= d2.d

\* Variant: the period that starts within one step after the end of the
\* window is kept too.
RECURSIVE TimeStepsPastEnd(_, _, _, _)
TimeStepsPastEnd(start, end, years, k) ==
    IF DateLE([start EXCEPT !.y = start.y + (k - 1) * years], end)
    THEN <<start.y + k * years>> \o TimeStepsPastEnd(start, end, years, k + 1)
    ELSE <<>>

\* The periods of the analysis window, counted from its first date in steps
\* of `years` years and labelled by the year they start in.
RECURSIVE TimeSteps(_, _, _, _)
TimeSteps(start, end, years, k) ==
    IF DateLE([start EXCEPT !.y = start.y + k * years], end)
    THEN <<start.y + k * years>> \o TimeSteps(start, end, years, k + 1)
    ELSE <<>>

\* The labels of the collection the helper returns for its arguments.
Labels(args) == TimeSteps(args[2][1], args[2][2], args[3].years, 0)

\* The observations loaded for the selected area, one stack per period.
LoadArd(args, area) ==
    [k \in 1..Len(Labels(args)) |->
        [timestep |-> Labels(args)[k], area |-> area]]

\* One geomedian composite per period.
Geomedian(obs) ==
    [k \in 1..Len(obs) |->
        [timestep |-> obs[k].timestep,
         raster   |-> [area |-> obs[k].area, period |-> obs[k].timestep]]]

\* Decimal digits of a natural number, as str() and f-strings give them.
Digit(n) == <<"0", "1", "2", "3", "4", "5", "6", "7", "8", "9">>[n + 1]

RECURSIVE Str(_)
Str(n) == IF n < 10 THEN Digit(n) ELSE Str(n \div 10) \o Digit(n % 10)

\* filmstrip_{output_name}_{date_string}_{time_step}.png
FilmstripName(args) ==
    "filmstrip_" \o args[1] \o "_" \o Str(args[2][1].y) \o "-"
        \o Str(args[2][2].y) \o "_" \o Str(args[3].years) \o "years.png"

\* Variant: a handler around the call assigns an empty collection.
AcquisitionRaisesAssigns(exception) ==
    /\ running' = "idle"
    /\ cell_status' = [cell_status EXCEPT !.acquisition = exception]
    /\ output_data' = <<>>
    /\ bound' = bound \cup {"output_data"}
    /\ UNCHANGED <<params, i, ds>>

\* An exception leaves cell 9, which has no handler: the kernel is idle
\* again and the assignment to output_data does not take place.
AcquisitionRaises(exception) ==
    /\ running' = "idle"
    /\ cell_status' = [cell_status EXCEPT !.acquisition = exception]
    /\ UNCHANGED namespace

\* Cell 9 starts: the arguments are evaluated and run_filmstrip_app is
\* called; it shows the map and waits for the user.
AcquisitionCall ==
    /\ running = "idle"
    /\ execution_count < MaxExecutions
    /\ execution_count' = execution_count + 1
    /\ IF ParamNames \subseteq bound
       THEN /\ running' = "acquisition"
            /\ helper_args' = HelperArgs
            /\ helper_calls' = helper_calls + 1
            /\ helper_stage' = "map"
            /\ helper_log' = <<"map">>
            /\ selection' = 0
            /\ loaded' = <<>>
            /\ helper_result' = <<>>
            /\ UNCHANGED <<cell_status, namespace>>
       ELSE /\ AcquisitionRaises("NameError")
            /\ UNCHANGED helper
    /\ UNCHANGED <<param_cell, assigned, export, files>>

\* The user draws a rectangle or polygon on the map (and may draw again).
DrawShape ==
    /\ running = "acquisition" /\ helper_stage = "map"
    /\ \E area \in Areas :
          /\ area # selection
          /\ selection' = area
    /\ UNCHANGED <<param_cell, namespace, assigned, execution_count, running,
                   cell_status, helper_stage, helper_args, helper_calls,
                   loaded, helper_result, helper_log, export, files>>

\* The user presses `done`: the helper checks the selection.
PressDone ==
    /\ running = "acquisition" /\ helper_stage = "map"
    /\ helper_log' = Append(helper_log, "done")
    /\ IF selection = 0
       THEN /\ AcquisitionRaises("EmptySelection")
            /\ helper_stage' = "raised"
       ELSE IF selection > SizeLimit
       THEN /\ AcquisitionRaises("AreaTooLarge")
            /\ helper_stage' = "raised"
       ELSE /\ helper_stage' = "confirmed"
            /\ UNCHANGED <<running, cell_status, namespace>>
    /\ UNCHANGED <<param_cell, assigned, execution_count,
                   helper_args, helper_calls, selection, loaded,
                   helper_result, export, files>>

\* Variant: loading does not wait for the `done` button.
LoadDataEarly ==
    /\ running = "acquisition" /\ helper_stage \in {"map", "confirmed"}
    /\ selection # 0
    /\ helper_log' = Append(helper_log, "load")
    /\ helper_stage' = "loaded"
    /\ loaded' = LoadArd(helper_args, selection)
    /\ UNCHANGED <<param_cell, namespace, assigned, execution_count, running,
                   cell_status, helper_args, helper_calls, selection,
                   helper_result, export, files>>

\* The helper queries the data cube for the selection.  The query may fail;
\* a window holding no period may fail too.
LoadData ==
    /\ running = "acquisition" /\ helper_stage = "confirmed"
    /\ helper_log' = Append(helper_log, "load")
    /\ \/ /\ helper_stage' = "loaded"
          /\ loaded' = LoadArd(helper_args, selection)
          /\ UNCHANGED <<running, cell_status, namespace>>
       \/ /\ AcquisitionRaises("QueryError")
          /\ helper_stage' = "raised"
          /\ UNCHANGED loaded
    /\ UNCHANGED <<param_cell, assigned, execution_count,
                   helper_args, helper_calls, selection, helper_result,
                   export, files>>

\* The helper composites each period's observations.
GenerateGeomedians ==
    /\ running = "acquisition" /\ helper_stage = "loaded"
    /\ helper_stage' = "composited"
    /\ helper_log' = Append(helper_log, "geomedian")
    /\ helper_result' = Geomedian(loaded)
    /\ UNCHANGED <<param_cell, namespace, assigned, execution_count, running,
                   cell_status, helper_args, helper_calls, selection, loaded,
                   export, files>>

\* The helper plots the filmstrip and saves it.
ExportFilmstrip ==
    /\ running = "acquisition" /\ helper_stage = "composited"
    /\ helper_stage' = "plotted"
    /\ helper_log' = Append(helper_log, "savefig")
    /\ files' = (FilmstripName(helper_args) :>
                    [complete |-> TRUE, data |-> helper_result]) @@ files
    /\ UNCHANGED <<param_cell, namespace, assigned, execution_count, running,
                   cell_status, helper_args, helper_calls, selection, loaded,
                   helper_result, export>>

\* The helper returns and cell 9 assigns output_data.
AcquisitionReturn ==
    /\ running = "acquisition" /\ helper_stage = "plotted"
    /\ output_data' = helper_result
    /\ bound' = bound \cup {"output_data"}
    /\ helper_stage' = "returned"
    /\ helper_log' = Append(helper_log, "return")
    /\ running' = "idle"
    /\ cell_status' = [cell_status EXCEPT !.acquisition = "ok"]
    /\ UNCHANGED <<param_cell, params, i, ds, assigned, execution_count,
                   helper_args, helper_calls, selection, loaded,
                   helper_result, export, files>>

(* ----------------------------- export loop ----------------------------- *)

\* The labels of a set in ascending order.
RECURSIVE Ascending(_)
Ascending(S) ==
    IF S = {} THEN <<>>
    ELSE LET least == CHOOSE x \in S : \A y \in S : x <= y
         IN  <<least>> \o Ascending(S \ {least})

\* Variant: the groups come latest first.
GroupByDescending(data) ==
    LET labels == Ascending({data[k].timestep : k \in 1..Len(data)})
        n == Len(labels)
    IN  [g \in 1..n |->
            [label   |-> labels[n + 1 - g],
             dataset |-> SelectSeq(data,
                             LAMBDA e : e.timestep = labels[n + 1 - g])]]

\* output_data.groupby('timestep'): one (label, sub-collection) pair per
\* distinct label, in ascending label order.
GroupBy(data) ==
    LET labels == Ascending({data[k].timestep : k \in 1..Len(data)})
    IN  [g \in 1..Len(labels) |->
            [label   |-> labels[g],
             dataset |-> SelectSeq(data, LAMBDA e : e.timestep = labels[g])]]

\* f'Exporting {i} data'
ProgressMessage(label) == "Exporting " \o Str(label) \o " data"

\* Variant: the separator before the label is missing.
GeotiffNameNoSeparator(name, label) ==
    "geotiff_" \o name \o Str(label) \o ".tif"

\* Variant: the label is left out of the name.
GeotiffNameNoLabel(name, label) ==
    "geotiff_" \o name \o ".tif"

\* Variant: another file extension.
GeotiffNameTiff(name, label) ==
    "geotiff_" \o name \o "_" \o Str(label) \o ".tiff"

\* f'geotiff_{output_name}_{i}.tif'
GeotiffName(name, label) ==
    "geotiff_" \o name \o "_" \o Str(label) \o ".tif"

\* The export cell ends: the kernel is idle again.
ExportEnds(outcome) ==
    /\ running' = "idle"
    /\ export_pc' = "none"
    /\ cell_status' = [cell_status EXCEPT !.export = outcome]

\* Variant: a collection that was never assigned counts as empty.
ExportStartUnboundAsEmpty ==
    /\ running = "idle"
    /\ execution_count < MaxExecutions
    /\ execution_count' = execution_count + 1
    /\ idx' = 0
    /\ printed' = <<>>
    /\ writer_calls' = <<>>
    /\ groups' = GroupBy(output_data)
    /\ running' = "export"
    /\ export_pc' = "for"
    /\ UNCHANGED <<cell_status, param_cell, namespace, assigned, helper,
                   files>>

\* Cell 13 starts: output_data.groupby('timestep') is evaluated once.
ExportStart ==
    /\ running = "idle"
    /\ execution_count < MaxExecutions
    /\ execution_count' = execution_count + 1
    /\ idx' = 0
    /\ printed' = <<>>
    /\ writer_calls' = <<>>
    /\ IF "output_data" \in bound
       THEN /\ groups' = GroupBy(output_data)
            /\ running' = "export"
            /\ export_pc' = "for"
            /\ UNCHANGED cell_status
       ELSE /\ groups' = <<>>
            /\ ExportEnds("NameError")
    /\ UNCHANGED <<param_cell, namespace, assigned, helper, files>>

\* Variant: the progress message is left out.
ExportForSkipsPrint ==
    /\ running = "export" /\ export_pc = "for"
    /\ IF idx < Len(groups)
       THEN /\ idx' = idx + 1
            /\ i' = groups[idx + 1].label
            /\ ds' = groups[idx + 1].dataset
            /\ bound' = bound \cup {"i", "ds"}
            /\ export_pc' = "write"
            /\ UNCHANGED <<running, cell_status>>
       ELSE /\ ExportEnds("ok")
            /\ UNCHANGED <<idx, i, ds, bound>>
    /\ UNCHANGED <<param_cell, params, output_data, assigned,
                   execution_count, helper, groups, printed, writer_calls,
                   files>>

\* Variant: when the groups are used up the loop starts over.
ExportForStartsOver ==
    /\ running = "export" /\ export_pc = "for"
    /\ IF Len(groups) = 0
       THEN /\ ExportEnds("ok")
            /\ UNCHANGED <<idx, i, ds, bound>>
       ELSE /\ idx' = (idx % Len(groups)) + 1
            /\ i' = groups[(idx % Len(groups)) + 1].label
            /\ ds' = groups[(idx % Len(groups)) + 1].dataset
            /\ bound' = bound \cup {"i", "ds"}
            /\ export_pc' = "print"
            /\ UNCHANGED <<running, cell_status>>
    /\ UNCHANGED <<param_cell, params, output_data, assigned,
                   execution_count, helper, groups, printed, writer_calls,
                   files>>

\* Variant: taking a group removes it from output_data.
ExportForConsumes ==
    /\ running = "export" /\ export_pc = "for"
    /\ IF idx < Len(groups)
       THEN /\ idx' = idx + 1
            /\ i' = groups[idx + 1].label
            /\ ds' = groups[idx + 1].dataset
            /\ bound' = bound \cup {"i", "ds"}
            /\ output_data' = Tail(output_data)
            /\ export_pc' = "print"
            /\ UNCHANGED <<running, cell_status>>
       ELSE /\ ExportEnds("ok")
            /\ UNCHANGED <<idx, i, ds, bound, output_data>>
    /\ UNCHANGED <<param_cell, params, assigned, execution_count, helper,
                   groups, printed, writer_calls, files>>

\* `for i, ds in ...`: the next group is bound to i and ds, or the loop ends.
ExportFor ==
    /\ running = "export" /\ export_pc = "for"
    /\ IF idx < Len(groups)
       THEN /\ idx' = idx + 1
            /\ i' = groups[idx + 1].label
            /\ ds' = groups[idx + 1].dataset
            /\ bound' = bound \cup {"i", "ds"}
            /\ export_pc' = "print"
            /\ UNCHANGED <<running, cell_status>>
       ELSE /\ ExportEnds("ok")
            /\ UNCHANGED <<idx, i, ds, bound>>
    /\ UNCHANGED <<param_cell, params, output_data, assigned,
                   execution_count, helper, groups, printed, writer_calls,
                   files>>

\* print(f'Exporting {i} data')
ExportPrint ==
    /\ running = "export" /\ export_pc = "print"
    /\ printed' = Append(printed, ProgressMessage(i))
    /\ export_pc' = "write"
    /\ UNCHANGED <<param_cell, namespace, assigned, execution_count, running,
                   cell_status, helper, groups, idx, writer_calls, files>>

\* Variant: the call sits in a try/except that swallows the writer's error,
\* so the loop goes on to the next group.
ExportWriteSwallows ==
    /\ running = "export" /\ export_pc = "write"
    /\ LET filename == GeotiffName(output_name, i)
           call == [dataset |-> ds, filename |-> filename]
       IN  \/ /\ writer_calls' =
                    Append(writer_calls, call @@ [raised |-> FALSE])
              /\ files' = (filename :>
                              [complete |-> TRUE, data |-> ds]) @@ files
           \/ /\ writer_calls' =
                    Append(writer_calls, call @@ [raised |-> TRUE])
              /\ UNCHANGED files
    /\ export_pc' = "for"
    /\ UNCHANGED <<param_cell, namespace, assigned, execution_count, running,
                   cell_status, helper, groups, idx, printed>>

\* Variant: the file name carries the output name the acquisition call was
\* given, not the current one.
ExportWriteAcquisitionName ==
    /\ running = "export" /\ export_pc = "write"
    /\ LET filename == GeotiffName(helper_args[1], i)
           call == [dataset |-> ds, filename |-> filename]
       IN  \/ /\ writer_calls' =
                    Append(writer_calls, call @@ [raised |-> FALSE])
              /\ files' = (filename :>
                              [complete |-> TRUE, data |-> ds]) @@ files
              /\ export_pc' = "for"
              /\ UNCHANGED <<running, cell_status>>
           \/ /\ writer_calls' =
                    Append(writer_calls, call @@ [raised |-> TRUE])
              /\ \/ UNCHANGED files
                 \/ files' = (filename :>
                                 [complete |-> FALSE, data |-> ds]) @@ files
              /\ ExportEnds("WriterError")
    /\ UNCHANGED <<param_cell, namespace, assigned, execution_count, helper,
                   groups, idx, printed>>

\* write_geotiff(dataset=ds, filename=f'geotiff_{output_name}_{i}.tif').
\* The writer returns with the file written, or raises; when it raises it
\* may have created the file already and left it incomplete.
ExportWrite ==
    /\ running = "export" /\ export_pc = "write"
    /\ LET filename == GeotiffName(output_name, i)
           call == [dataset |-> ds, filename |-> filename]
       IN  \/ /\ writer_calls' =
                    Append(writer_calls, call @@ [raised |-> FALSE])
              /\ files' = (filename :>
                              [complete |-> TRUE, data |-> ds]) @@ files
              /\ export_pc' = "for"
              /\ UNCHANGED <<running, cell_status>>
           \/ /\ writer_calls' =
                    Append(writer_calls, call @@ [raised |-> TRUE])
              /\ \/ UNCHANGED files
                 \/ files' = (filename :>
                                 [complete |-> FALSE, data |-> ds]) @@ files
              /\ ExportEnds("WriterError")
    /\ UNCHANGED <<param_cell, namespace, assigned, execution_count, helper,
                   groups, idx, printed>>

(* ------------------------------ properties ----------------------------- *)

\* The timestep labels of a collection, in its order.
LabelsOf(data) == [k \in 1..Len(data) |-> data[k].timestep]

\* The set of timestep labels of a collection.
LabelSet(data) == {data[k].timestep : k \in 1..Len(data)}

\* The items of a collection that carry a label.
WithLabel(data, label) == SelectSeq(data, LAMBDA e : e.timestep = label)

\* This step ends a run of the export cell in which no writer call failed.
ExportCompletes ==
    /\ running = "export" /\ running' = "idle"
    /\ cell_status'.export = "ok"

\* C1: when a run of the export cell ends with no writer call failed, it
\* has called write_geotiff exactly once per 'timestep' group of
\* output_data, in group order: there are as many calls as distinct labels,
\* and the k-th call received all items of the k-th smallest label.
C1_OncePerGroupInOrder ==
    [][ExportCompletes =>
          /\ Len(writer_calls') = Cardinality(LabelSet(output_data))
          /\ \A k \in 1..Len(writer_calls') :
                LET d == writer_calls'[k].dataset
                IN  /\ d # <<>>
                    /\ Cardinality({l \in LabelSet(output_data) :
                                       l < d[1].timestep}) = k - 1
                    /\ d = WithLabel(output_data, d[1].timestep)]_vars

\* C1 witness: an export run has ended normally after writing six groups.
C1_Witness ==
    /\ running = "idle" /\ cell_status.export = "ok"
    /\ Len(writer_calls) = 6
    /\ \A k \in 1..6 : ~writer_calls[k].raised

\* C2: every call of write_geotiff is given the file name
\* 'geotiff_' + output_name + '_' + label + '.tif', built from the current
\* output_name and the label of the group it writes, and from nothing else.
C2_FileNameIsFunctionOfNameAndLabel ==
    [][writer_calls' # writer_calls /\ writer_calls' # <<>> =>
          LET call == writer_calls'[Len(writer_calls')]
          IN  /\ Len(writer_calls') = Len(writer_calls) + 1
              /\ call.filename =
                    "geotiff_" \o output_name \o "_"
                        \o Str(call.dataset[1].timestep) \o ".tif"]_vars

\* C2 witness: a run under the output name 'site' has made two calls.
C2_Witness ==
    /\ running = "export" /\ output_name = "site"
    /\ Len(writer_calls) = 2
    /\ writer_calls[2].filename = "geotiff_site_1994.tif"

\* C3: when the writer raises on the k-th group the export cell has ended
\* in error, the failed call is the last call of the run (groups k+1..n are
\* never written, the call is not retried), the run has made one call for
\* each of the groups 1..k, and the files of groups 1..k-1 are complete, as
\* written.
C3_WriterErrorAbortsExport ==
    \A k \in 1..Len(writer_calls) :
        writer_calls[k].raised =>
            /\ running # "export"
            /\ cell_status.export = "WriterError"
            /\ k = Len(writer_calls)
            /\ k = idx /\ k <= Len(groups)
            /\ \A j \in 1..k : writer_calls[j].dataset = groups[j].dataset
            /\ \A j \in 1..(k - 1) :
                  /\ ~writer_calls[j].raised
                  /\ writer_calls[j].filename \in DOMAIN files
                  /\ files[writer_calls[j].filename] =
                        [complete |-> TRUE, data |-> writer_calls[j].dataset]

\* C3 witness: the writer raised on the third of six groups.
C3_Witness ==
    /\ running = "idle" /\ cell_status.export = "WriterError"
    /\ Len(groups) = 6 /\ Len(writer_calls) = 3
    /\ writer_calls[3].raised
    /\ "geotiff_example_1993.tif" \in DOMAIN files
    /\ "geotiff_example_1998.tif" \notin DOMAIN files

\* The values the last run of the parameter cell assigned, in the order of
\* the helper's positional parameters.
AssignedInOrder ==
    <<assigned.output_name, assigned.time_range, assigned.time_step,
      assigned.tide_range, assigned.resolution, assigned.max_cloud,
      assigned.ls7_slc_off>>

\* C4: run_filmstrip_app receives, in positional order, the values of
\* output_name, time_range, time_step, tide_range, resolution, max_cloud and
\* ls7_slc_off that the parameter cell assigned, they are the current values
\* of the seven names, and no step of the call changes any of the seven.
C4_ParametersPassUnchanged ==
    [][/\ (running = "idle" /\ running' = "acquisition") =>
              /\ helper_args' = AssignedInOrder
              /\ helper_args' =
                    <<output_name, time_range, time_step, tide_range,
                      resolution, max_cloud, ls7_slc_off>>
              /\ params' = params
       /\ running = "acquisition" =>
              /\ params' = params
              /\ helper_args' = helper_args]_vars

\* C4 witness: a call made with the edited parameters has returned, and the
\* names still hold what the call received.
C4_Witness ==
    /\ running = "idle" /\ cell_status.acquisition = "ok"
    /\ helper_stage = "returned"
    /\ helper_args[1] = "site" /\ helper_args[4] = <<0, 3>>
    /\ helper_args[5] = <<-100, 100>> /\ helper_args[6] = 80
    /\ output_name = "site" /\ tide_range = <<0, 3>>
    /\ resolution = <<-100, 100>> /\ max_cloud = 80

\* The file names of the scenario of C5.
ScenarioFileNames ==
    <<"geotiff_example_1988.tif", "geotiff_example_1993.tif",
      "geotiff_example_1998.tif", "geotiff_example_2003.tif",
      "geotiff_example_2008.tif", "geotiff_example_2013.tif">>

\* C5: with output_name = 'example', time_range = ('1988-01-01',
\* '2017-12-31'), time_step = {'years': 5} and a collection whose groups are
\* labelled 1988, 1993, 1998, 2003, 2008, 2013, a run of the export cell
\* that ends normally has made exactly six writer calls, named
\* geotiff_example_1988.tif .. geotiff_example_2013.tif in this order, and
\* each of the six files holds its group.
C5_ScenarioSixFiles ==
    [][(/\ ExportCompletes
        /\ output_name = "example"
        /\ time_range = <<Date(1988, 1, 1), Date(2017, 12, 31)>>
        /\ time_step = [years |-> 5]
        /\ LabelsOf(output_data) = <<1988, 1993, 1998, 2003, 2008, 2013>>) =>
          /\ [k \in 1..Len(writer_calls') |-> writer_calls'[k].filename]
                = ScenarioFileNames
          /\ \A k \in 1..6 :
                /\ ScenarioFileNames[k] \in DOMAIN files'
                /\ files'[ScenarioFileNames[k]] =
                      [complete |-> TRUE, data |-> <<output_data[k]>>]]_vars

\* C5 witness: the scenario's run has ended and made its six calls.
C5_Witness ==
    /\ running = "idle" /\ cell_status.export = "ok"
    /\ output_name = "example" /\ time_step = [years |-> 5]
    /\ time_range = <<Date(1988, 1, 1), Date(2017, 12, 31)>>
    /\ LabelsOf(output_data) = <<1988, 1993, 1998, 2003, 2008, 2013>>
    /\ Len(writer_calls) = 6
    /\ writer_calls[6].filename = "geotiff_example_2013.tif"

\* C6: once the parameter cell has run with its shipped text, tide_range,
\* resolution, max_cloud and ls7_slc_off hold the documented defaults
\* (0.0, 1.0), (-30, 30), 50 and False, and a call of run_filmstrip_app made
\* then receives these values.
C6_DefaultsAsDocumented ==
    (ParamNames \subseteq bound /\ assigned = ParameterCellSource) =>
        /\ tide_range = DocumentedDefaults.tide_range
        /\ resolution = DocumentedDefaults.resolution
        /\ max_cloud = DocumentedDefaults.max_cloud
        /\ ls7_slc_off = DocumentedDefaults.ls7_slc_off
        /\ running = "acquisition" =>
              /\ helper_args[4] = DocumentedDefaults.tide_range
              /\ helper_args[5] = DocumentedDefaults.resolution
              /\ helper_args[6] = DocumentedDefaults.max_cloud
              /\ helper_args[7] = DocumentedDefaults.ls7_slc_off

\* C6 witness: the helper is running on the unedited parameters.
C6_Witness ==
    /\ running = "acquisition"
    /\ param_cell = ParameterCellSource /\ assigned = ParameterCellSource
    /\ helper_args[4] = <<0, 10>> /\ helper_args[5] = <<-30, 30>>
    /\ helper_args[6] = 50 /\ helper_args[7] = FALSE

\* C7: in every call of run_filmstrip_app, data loading, compositing and
\* the write of the filmstrip file each come after the user pressed `done`;
\* while the helper waits on the map nothing is loaded or composited, and
\* in the first call no file exists yet.
C7_NothingBeforeDone ==
    /\ \A k \in 1..Len(helper_log) :
          helper_log[k] \in {"load", "geomedian", "savefig", "return"} =>
              \E j \in 1..(k - 1) : helper_log[j] = "done"
    /\ (running = "acquisition" /\ helper_stage = "map") =>
          /\ helper_log = <<"map">>
          /\ loaded = <<>> /\ helper_result = <<>>
          /\ helper_calls = 1 => DOMAIN files = {}

\* C7 witness: after `done` the helper has loaded, composited and saved the
\* filmstrip of the shipped parameters.
C7_Witness ==
    /\ running = "acquisition"
    /\ helper_log = <<"map", "done", "load", "geomedian", "savefig">>
    /\ "filmstrip_example_1988-2017_5years.png" \in DOMAIN files

\* This step is run_filmstrip_app raising out of cell 9.
HelperRaises ==
    /\ running = "acquisition" /\ running' = "idle"
    /\ helper_stage' = "raised"

\* C8: when run_filmstrip_app raises, cell 9 ends in error, output_data is
\* not assigned (it keeps its value, or stays unbound), no file is written
\* and no writer call is made; and the helper is called once per execution
\* of cell 9, never again on its own.
C8_AcquisitionFailurePropagates ==
    [][/\ HelperRaises =>
              /\ cell_status'.acquisition \notin {"ok", "never"}
              /\ output_data' = output_data
              /\ ("output_data" \in bound') = ("output_data" \in bound)
              /\ helper_calls' = helper_calls
              /\ writer_calls' = writer_calls
              /\ files' = files
       /\ helper_calls' # helper_calls =>
              /\ helper_calls' = helper_calls + 1
              /\ execution_count' = execution_count + 1
              /\ running = "idle"]_vars

\* C8 witness: a call failed on an oversized area after an earlier call had
\* succeeded; output_data still holds the earlier collection.
C8_Witness ==
    /\ running = "idle" /\ helper_stage = "raised"
    /\ cell_status.acquisition = "AreaTooLarge"
    /\ helper_calls = 2
    /\ "output_data" \in bound /\ Len(output_data) = 6

\* C9: the labels of the collection a successful call returned start at the
\* start of the time_range it received, consecutive labels are one
\* time_step apart and none lies after the end of the range; for
\* ('1988-01-01', '2017-12-31') and {'years': 5} they are 1988, 1993, 1998,
\* 2003, 2008, 2013.
C9_PeriodsCountedFromStart ==
    (cell_status.acquisition = "ok" /\ running # "acquisition") =>
        LET L == LabelsOf(output_data)
            first == helper_args[2][1]
            last == helper_args[2][2]
            step == helper_args[3].years
        IN  /\ L # <<>> => L[1] = first.y
            /\ \A k \in 1..(Len(L) - 1) : L[k + 1] = L[k] + step
            /\ \A k \in 1..Len(L) : L[k] <= last.y
            /\ (/\ first = Date(1988, 1, 1) /\ last = Date(2017, 12, 31)
                /\ step = 5) =>
                  L = <<1988, 1993, 1998, 2003, 2008, 2013>>

\* C9 witness: a call for 1990-01-01 .. 2000-01-01 in steps of four years
\* returned the periods 1990, 1994, 1998.
C9_Witness ==
    /\ running = "idle" /\ cell_status.acquisition = "ok"
    /\ helper_args[2] = <<Date(1990, 1, 1), Date(2000, 1, 1)>>
    /\ helper_args[3] = [years |-> 4]
    /\ LabelsOf(output_data) = <<1990, 1994, 1998>>

\* This step belongs to a run of the export cell.
ExportCellStep ==
    \/ running = "export"
    \/ running' = "export"
    \/ export' # export

\* C10 as stated: no step of a run of the export cell creates or changes
\* anything in the kernel namespace.
C10_Original ==
    [][ExportCellStep =>
          /\ output_data' = output_data
          /\ params' = params
          /\ bound' = bound
          /\ i' = i /\ ds' = ds]_vars

\* C10 amended: no step of a run of the export cell, completed or aborted,
\* changes output_data or any of the seven parameters, and the only names
\* it binds are the loop variables i and ds.
C10_OnlyLoopVariablesBound ==
    [][ExportCellStep =>
          /\ output_data' = output_data
          /\ params' = params
          /\ bound \subseteq bound'
          /\ bound' \ bound \subseteq {"i", "ds"}]_vars

\* C10 witness: a run aborted by the writer has left i and ds bound and
\* output_data in place.
C10_Witness ==
    /\ running = "idle" /\ cell_status.export = "WriterError"
    /\ {"i", "ds", "output_data"} \subseteq bound
    /\ Len(output_data) = 6 /\ i = 1993

\* C11: a run of the export cell always finishes: it makes at most one
\* writer call per group of output_data, and on an empty collection its
\* first step ends it normally with no writer call, no message and no file
\* written.
C11_ExportTerminates ==
    /\ (running = "export") ~> (running = "idle")
    /\ [][/\ (writer_calls' # writer_calls /\ writer_calls' # <<>>) =>
                 Len(writer_calls') <= Cardinality(LabelSet(output_data))
          /\ (running = "export" /\ output_data = <<>>) =>
                 /\ running' = "idle"
                 /\ cell_status'.export = "ok"
                 /\ writer_calls' = <<>>
                 /\ printed' = <<>>
                 /\ files' = files]_vars

\* C11 witness: a run over an empty collection has ended normally without
\* a call or a message.
C11_Witness ==
    /\ running = "idle" /\ cell_status.export = "ok"
    /\ "output_data" \in bound /\ output_data = <<>>
    /\ groups = <<>> /\ writer_calls = <<>> /\ printed = <<>>
    /\ execution_count >= 3

\* The label of the group a writer call was made for.
CallLabel(call) == call.dataset[1].timestep

\* C12: the message 'Exporting {label} data' of a group is printed before
\* the writer is called for that group and before anything is done for the
\* next one: the messages are those of the groups taken so far, in order,
\* one more than the writer calls exactly while a call is pending; so when
\* the writer raised on the k-th group there are k messages, of groups
\* 1..k, and the calls of the run that wrote their file are those of
\* groups 1..k-1.
C12_MessageBeforeWrite ==
    (running = "export" \/ cell_status.export \in {"ok", "WriterError"}) =>
        /\ Len(printed) =
              Len(writer_calls) + (IF export_pc = "write" THEN 1 ELSE 0)
        /\ \A k \in 1..Len(writer_calls) :
              printed[k] =
                  "Exporting " \o Str(CallLabel(writer_calls[k])) \o " data"
        /\ export_pc = "write" =>
              printed[Len(printed)] = "Exporting " \o Str(i) \o " data"
        /\ export_pc = "print" => idx = Len(printed) + 1
        /\ \A k \in 1..Len(writer_calls) :
              writer_calls[k].raised =>
                  /\ Len(printed) = k
                  /\ \A j \in 1..k :
                        /\ printed[j] =
                              "Exporting " \o Str(groups[j].label) \o " data"
                        /\ ~writer_calls[j].raised <=> j < k
                        /\ j < k =>
                              /\ writer_calls[j].filename \in DOMAIN files
                              /\ files[writer_calls[j].filename] =
                                    [complete |-> TRUE,
                                     data |-> writer_calls[j].dataset]

\* C12 witness: the writer raised on the second of six groups after two
\* messages.
C12_Witness ==
    /\ running = "idle" /\ cell_status.export = "WriterError"
    /\ Len(groups) = 6
    /\ printed = <<"Exporting 1988 data", "Exporting 1993 data">>
    /\ Len(writer_calls) = 2 /\ writer_calls[2].raised

\* C13: within one run of the export cell the writer calls are for pairwise
\* distinct labels under one output_name and have pairwise distinct file
\* names, so no call overwrites a file of an earlier call of the run.
C13_NoFileWrittenTwice ==
    \A j, k \in 1..Len(writer_calls) :
        j < k =>
            /\ CallLabel(writer_calls[j]) # CallLabel(writer_calls[k])
            /\ writer_calls[j].filename # writer_calls[k].filename
            /\ (~writer_calls[k].raised /\ running = "export") =>
                  /\ writer_calls[j].filename \in DOMAIN files
                  /\ files[writer_calls[j].filename].data =
                        writer_calls[j].dataset

\* C13 witness: a run has written six different files.
C13_Witness ==
    /\ running = "idle" /\ cell_status.export = "ok"
    /\ Len(writer_calls) = 6
    /\ Cardinality({writer_calls[k].filename : k \in 1..6}) = 6
    /\ output_name = "example"

\* C14: write_geotiff is called only after an execution of cell 9 returned
\* normally and assigned output_data: output_data becomes bound only by
\* such a return, and as long as it is unbound the export cell has made no
\* writer call, each of its runs has ended with a NameError, and the only
\* file there can be is the filmstrip of the call that is about to return.
C14_WriteOnlyAfterAcquisition ==
    /\ []("output_data" \notin bound =>
             /\ writer_calls = <<>>
             /\ printed = <<>>
             /\ running # "export"
             /\ cell_status.export \in {"never", "NameError"}
             /\ cell_status.acquisition # "ok"
             /\ DOMAIN files # {} =>
                   /\ running = "acquisition" /\ helper_stage = "plotted"
                   /\ DOMAIN files = {FilmstripName(helper_args)})
    /\ [][/\ ("output_data" \notin bound /\ "output_data" \in bound') =>
                 /\ running = "acquisition"
                 /\ cell_status'.acquisition = "ok"
          /\ (writer_calls' # writer_calls /\ writer_calls' # <<>>) =>
                 "output_data" \in bound
          /\ "output_data" \in bound => "output_data" \in bound']_vars

\* C14 witness: the export cell was run after the only acquisition call had
\* failed, and ended with a NameError and no writer call.
C14_Witness ==
    /\ running = "idle" /\ "output_data" \notin bound
    /\ helper_calls = 1 /\ cell_status.acquisition = "QueryError"
    /\ cell_status.export = "NameError"
    /\ writer_calls = <<>> /\ DOMAIN files = {}

\* C15: output_data changes only when a call of run_filmstrip_app returns
\* normally, to what that call returned; and every writer call writes the
\* items of the current output_data that carry its label, under a file name
\* built from the output_name the parameter cell assigned last, whatever
\* name the acquisition call had received.
C15_LatestDataCurrentName ==
    [][/\ output_data' # output_data =>
              /\ running = "acquisition"
              /\ cell_status'.acquisition = "ok"
              /\ output_data' = helper_result
       /\ (writer_calls' # writer_calls /\ writer_calls' # <<>>) =>
              LET call == writer_calls'[Len(writer_calls')]
              IN  /\ call.dataset # <<>>
                  /\ call.dataset = WithLabel(output_data, CallLabel(call))
                  /\ call.filename =
                        "geotiff_" \o assigned.output_name \o "_"
                            \o Str(CallLabel(call)) \o ".tif"]_vars

\* C15 witness: data acquired under the name 'example' was exported after
\* the parameter cell had assigned 'site'.
C15_Witness ==
    /\ running = "idle" /\ cell_status.export = "ok"
    /\ helper_args[1] = "example" /\ output_name = "site"
    /\ Len(writer_calls) = 6
    /\ writer_calls[1].filename = "geotiff_site_1988.tif"
    /\ "filmstrip_example_1988-2017_5years.png" \in DOMAIN files

Next ==
    \/ ExportStart
    \/ ExportFor
    \/ ExportPrint
    \/ ExportWrite
    \/ AcquisitionCall
    \/ DrawShape
    \/ PressDone
    \/ LoadData
    \/ GenerateGeomedians
    \/ ExportFilmstrip
    \/ AcquisitionReturn
    \/ EditParameterCell
    \/ RunParameterCell

Spec == Init /\ [][Next]_vars

\* The kernel keeps executing the cell it is running: each step of the
\* export loop that can be taken is taken.
FairSpec ==
    /\ Spec
    /\ WF_vars(ExportFor)
    /\ WF_vars(ExportPrint)
    /\ WF_vars(ExportWrite)
====
